---- MODULE Spec2Model ----
(***************************************************************************)
(* Model of src/fred_dashboard.py: the Streamlit script that checks the    *)
(* FRED credential, fetches every selected series through the memoized     *)
(* get_fred_data, concatenates the frames column-wise and renders per      *)
(* series statistics.  One script run (render cycle) is split at its       *)
(* network requests, whose outcome the external source decides.            *)
(***************************************************************************)
EXTENDS Integers, Sequences, FiniteSets, TLC

\* ----------------------------------------------------------------- bounds
\* Calendar dates are 1..MaxDate.
MaxDate == 2
\* Ghost counter cap: network rounds counted per cache key.
MaxRounds == 2

\* ------------------------------------------------------------ input sets
\* Two of the catalog codes (the default selection of the multiselect).
Catalog == {"UNRATE", "GDPC1"}
\* Display titles the external source may hold for a code.
Titles == {"Unemployment Rate", "Real Gross Domestic Product"}
Dates == 1..MaxDate
\* Observation values: two numbers give every order between two
\* observations (rise, fall, no change).
Vals == {1, 2}
\* Date range of the date inputs: the default start date up to today.
Ranges == {<<1, MaxDate>>}
\* st.secrets either lacks the key (KeyError) or holds a string.
NoSecret == "<KeyError>"
Secrets == {NoSecret, "", "YOUR_API_KEY_HERE", "abcdef"}

\* A cell of a pandas object: NaN is <<>>, a number v is <<v>>.
NaN == <<>>
Num(v) == <<v>>
Cells == {NaN} \cup {Num(v) : v \in Vals}

\* multiselect returns the chosen options, each at most once, in order.
Selections ==
  {s \in UNION {[1..n -> Catalog] : n \in 0..Cardinality(Catalog)} :
     \A a, b \in DOMAIN s : a # b => s[a] # s[b]}

Keys == {<<id, r[1], r[2]>> : id \in Catalog, r \in Ranges}

\* --------------------------------------------------------- pandas objects
\* A Series is [name, cells] with cells a function from its index (a set
\* of dates) to Cells; a DataFrame is [index, cols] with cols a sequence
\* of Series over that index.
EmptyDataFrame == [index |-> {}, cols |-> <<>>]

IsEmpty(df) == df.index = {} \/ df.cols = <<>>

to_frame(series) == [index |-> DOMAIN series.cells, cols |-> <<series>>]

\* Observations the source can return for a window: any dates inside it.
Window(s, e) == {t \in Dates : s <= t /\ t <= e}
Observations(s, e) == UNION {[idx -> Cells] : idx \in SUBSET Window(s, e)}

Reindex(series, idx) ==
  [name |-> series.name,
   cells |-> [t \in idx |-> IF t \in DOMAIN series.cells
                            THEN series.cells[t] ELSE NaN]]

\* pd.concat(df_list, axis=1, join="inner"): only the shared dates.
concat_inner(dfs) ==
  LET idx == {t \in UNION {dfs[k].index : k \in DOMAIN dfs} :
                \A k \in DOMAIN dfs : t \in dfs[k].index}
  IN [index |-> idx,
      cols |-> [k \in DOMAIN dfs |->
                 [name |-> dfs[k].cols[1].name,
                  cells |-> [t \in idx |-> dfs[k].cols[1].cells[t]]]]]

\* Column assignment by label (df[name] = series for each frame in turn):
\* a later frame with a label already present replaces that column.
concat_by_label(dfs) ==
  LET idx == UNION {dfs[k].index : k \in DOMAIN dfs}
      keep == {k \in DOMAIN dfs :
                 \A m \in DOMAIN dfs :
                   m > k => dfs[m].cols[1].name # dfs[k].cols[1].name}
  IN [index |-> idx,
      cols |-> [j \in 1..Cardinality(keep) |->
                 Reindex(dfs[CHOOSE k \in keep :
                               Cardinality({m \in keep : m <= k}) = j].cols[1],
                         idx)]]

\* pd.concat(df_list, axis=1): outer join on the index, columns appended
\* in list order under their own names (every frame of df_list is the
\* one-column frame of to_frame).
concat(dfs) ==
  LET idx == UNION {dfs[k].index : k \in DOMAIN dfs}
  IN [index |-> idx,
      cols |-> [k \in DOMAIN dfs |-> Reindex(dfs[k].cols[1], idx)]]

\* ------------------------------------------------------------- formatting
\* f"{x:,.2f}" of the rational num/den, as a signed number of hundredths.
Fmt2(num, den) ==
  IF num >= 0 THEN (200 * num + den) \div (2 * den)
  ELSE 0 - ((200 * (0 - num) + den) \div (2 * den))

\* f"{x:,.2f}" of the square root of num/den (num >= 0, den > 0).
FmtSqrt2(num, den) ==
  CHOOSE k \in 0..(100 * Cardinality(Vals)) :
    /\ (k = 0 \/ (2 * k - 1) * (2 * k - 1) * den <= 40000 * num)
    /\ 40000 * num < (2 * k + 1) * (2 * k + 1) * den

\* ------------------------------------------------------- Series operators
RECURSIVE SumOver(_, _)
SumOver(f, S) ==
  IF S = {} THEN 0
  ELSE LET t == CHOOSE x \in S : TRUE IN f[t] + SumOver(f, S \ {t})

\* The numbers of a Series without NaN, by date.
Values(series) == [t \in DOMAIN series.cells |-> series.cells[t][1]]
Count(series) == Cardinality(DOMAIN series.cells)
\* Position of iloc[k] in the date order, 1-based; k < 0 counts from the end.
Position(n, k) == IF k < 0 THEN n + k + 1 ELSE k + 1
iloc_in_bounds(series, k) ==
  Position(Count(series), k) \in 1..Count(series)
iloc(series, k) ==
  LET idx == DOMAIN series.cells
      p == Position(Cardinality(idx), k)
      t == CHOOSE x \in idx : Cardinality({y \in idx : y <= x}) = p
  IN series.cells[t][1]
mean_num(series) == SumOver(Values(series), DOMAIN series.cells)
min_of(series) ==
  CHOOSE v \in Vals : /\ \E t \in DOMAIN series.cells : series.cells[t] = Num(v)
                      /\ \A t \in DOMAIN series.cells : series.cells[t][1] >= v
max_of(series) ==
  CHOOSE v \in Vals : /\ \E t \in DOMAIN series.cells : series.cells[t] = Num(v)
                      /\ \A t \in DOMAIN series.cells : series.cells[t][1] <= v
\* Sample variance (N-1 denominator) as the fraction var_num / var_den.
var_num(series) ==
  LET v == Values(series)
      n == Count(series)
      sq == [t \in DOMAIN v |-> v[t] * v[t]]
  IN n * SumOver(sq, DOMAIN v) - mean_num(series) * mean_num(series)
var_den(series) == Count(series) * (Count(series) - 1)

\* Series.dropna(): the entries that are not NaN.
dropna_series(series) ==
  [name |-> series.name,
   cells |-> [t \in {x \in DOMAIN series.cells : series.cells[x] # NaN}
              |-> series.cells[t]]]

\* DataFrame.dropna(): the rows without a NaN in any column.
dropna_frame(df) ==
  LET keep == {t \in df.index : \A k \in DOMAIN df.cols : df.cols[k].cells[t] # NaN}
  IN [index |-> keep,
      cols |-> [k \in DOMAIN df.cols |->
                  [name |-> df.cols[k].name,
                   cells |-> [t \in keep |-> df.cols[k].cells[t]]]]]

\* Positions of the columns of df labelled title.
columns_named(df, title) == {k \in DOMAIN df.cols : df.cols[k].name = title}

\* ------------------------------------------------------- statistics block
NoStats == [name |-> "", metrics |-> <<>>]

\* Lines 110-120 for a non-empty Series without NaN: the widgets rendered,
\* in order, and the exception that ends the block early ("" for none).
\* data.iloc[-2] raises IndexError on a Series of length one, after the
\* first column of metrics is on the page.
key_statistics(data) ==
  LET col_stats1 ==
        << <<"Latest Value", Fmt2(iloc(data, -1), 1)>>,
           <<"Average", Fmt2(mean_num(data), Count(data))>>,
           <<"Min", Fmt2(min_of(data), 1)>> >>
  IN IF ~iloc_in_bounds(data, -2)
     THEN [exception |-> "IndexError",
           stats |-> [name |-> data.name, metrics |-> col_stats1]]
     ELSE [exception |-> "",
           stats |->
             [name |-> data.name,
              metrics |-> col_stats1 \o
                << <<"Change from Previous",
                     Fmt2(iloc(data, -1) - iloc(data, -2), 1)>>,
                   <<"Max", Fmt2(max_of(data), 1)>>,
                   <<"Std. Dev.", FmtSqrt2(var_num(data), var_den(data))>> >>]]

\* Lines 107-120 for one selected series whose title request returned
\* title: combined_df[title] raises KeyError without such a column, is a
\* Series with one and a DataFrame with several; a DataFrame has no
\* attribute name.
series_statistics(df, title) ==
  LET ks == columns_named(df, title)
  IN IF ks = {} THEN [exception |-> "KeyError", stats |-> NoStats]
     ELSE IF Cardinality(ks) = 1
     THEN LET data == dropna_series(df.cols[CHOOSE k \in ks : TRUE])
          IN IF DOMAIN data.cells = {}
             THEN [exception |-> "", stats |-> NoStats]
             ELSE key_statistics(data)
     ELSE LET sub == [index |-> df.index,
                      cols |-> [j \in 1..Cardinality(ks) |->
                                 df.cols[CHOOSE k \in ks :
                                           Cardinality({m \in ks : m <= k}) = j]]]
              data == dropna_frame(sub)
          IN IF IsEmpty(data)
             THEN [exception |-> "", stats |-> NoStats]
             ELSE [exception |-> "AttributeError", stats |-> NoStats]

\* ------------------------------------------------------------ credential
\* Lines 21-24: the secret, or the placeholder when the lookup raises
\* KeyError.
api_key_of(secret) == IF secret = NoSecret THEN "YOUR_API_KEY_HERE" ELSE secret

\* The check without its first operand: FRED_API_KEY == "YOUR_API_KEY_HERE".
key_rejected_placeholder_only(key) == key = "YOUR_API_KEY_HERE"

\* Line 26: not FRED_API_KEY or FRED_API_KEY == "YOUR_API_KEY_HERE".
key_rejected(key) == key = "" \/ key = "YOUR_API_KEY_HERE"

\* The branch taken whatever the selection.
has_selection_always(sel) == TRUE

\* Line 77: if selected_series_ids.
has_selection(sel) == Len(sel) > 0

\* ---------------------------------------------------------- st.cache_data
\* A cache entry keeps the returned frame and the st.* elements the call
\* emitted, which a hit replays.
NotCached == [cached |-> FALSE, frame |-> EmptyDataFrame, messages |-> <<>>]
cache_key(series_id, start, end) == <<series_id, start, end>>
\* A store that keeps nothing.
cache_store_nothing(c, key, frame, msgs) == c

\* A store that keeps only the calls that emitted no error element.
cache_store_successes(c, key, frame, msgs) ==
  IF msgs # <<>> THEN c
  ELSE [c EXCEPT ![key] = [cached |-> TRUE, frame |-> frame, messages |-> msgs]]

cache_store(c, key, frame, msgs) ==
  [c EXCEPT ![key] = [cached |-> TRUE, frame |-> frame, messages |-> msgs]]

\* ---------------------------------------------------------- get_fred_data
\* What the external source answers to the requests of one call.
\* series_ok: the observation request succeeded, with obs; info_ok: the
\* title request, issued only for non-empty obs, succeeded.
Responses(start, end) ==
  {[series_ok |-> FALSE, obs |-> <<>>, info_ok |-> TRUE]} \cup
  {[series_ok |-> TRUE, obs |-> o, info_ok |-> b] :
     o \in Observations(start, end), b \in BOOLEAN}

FetchError(series_id) == [level |-> "error", about |-> series_id]

\* Lines 37-51 on a cache miss: the frame returned, the elements emitted,
\* the number of network requests issued and whether an exception was
\* caught.
get_fred_data(series_id, resp, title) ==
  IF ~resp.series_ok
  THEN [frame |-> EmptyDataFrame, messages |-> <<FetchError(series_id)>>,
        requests |-> 1, caught |-> TRUE]
  ELSE IF DOMAIN resp.obs = {}
  THEN [frame |-> EmptyDataFrame, messages |-> <<>>,
        requests |-> 1, caught |-> FALSE]
  ELSE IF ~resp.info_ok
  THEN [frame |-> EmptyDataFrame, messages |-> <<FetchError(series_id)>>,
        requests |-> 2, caught |-> TRUE]
  ELSE [frame |-> to_frame([name |-> title, cells |-> resp.obs]),
        messages |-> <<>>, requests |-> 2, caught |-> FALSE]

\* ------------------------------------------------------------------ state
VARIABLES
  secret,               \* st.secrets["fred_api_key"], or NoSecret
  series_info,          \* external source: title of each code
  cache,                \* st.cache_data store of get_fred_data
  pc,                   \* position of the script run
  selected_series_ids,  \* multiselect value of this run
  start_date, end_date, \* date inputs of this run
  i,                    \* index of the running loop
  fetched,              \* frames get_fred_data returned in this run, in order
  df_list,              \* non-empty frames collected by the fetch loop
  combined_df,          \* pd.concat result
  rendered,             \* widgets on the page: line_chart, dataframe
  messages,             \* st.error / st.warning / st.info elements on the page
  stats,                \* per code: header and metrics rendered
  exception,            \* uncaught exception that ended the run, "" for none
  requests,             \* network requests issued in this run
  failed,               \* codes with a failed network request in this run
  served,               \* codes answered from the cache in this run
  rounds,               \* per cache key: observation requests ever issued
  returned,             \* per cache key: distinct frames ever returned
  caught_keys           \* cache keys whose call caught an exception

vars == <<secret, series_info, cache, pc, selected_series_ids, start_date,
          end_date, i, fetched, df_list, combined_df, rendered, messages,
          stats, exception, requests, failed, served, rounds, returned,
          caught_keys>>

FRED_API_KEY == api_key_of(secret)

Init ==
  /\ secret \in Secrets
  \* titles are stable on the source; GDPC1's may equal UNRATE's or not
  /\ series_info \in {f \in [Catalog -> Titles] :
                        f["UNRATE"] = "Unemployment Rate"}
  /\ cache = [k \in Keys |-> NotCached]
  /\ pc = "idle"
  /\ selected_series_ids = <<>>
  /\ start_date = 1
  /\ end_date = MaxDate
  /\ i = 1
  /\ fetched = <<>>
  /\ df_list = <<>>
  /\ combined_df = EmptyDataFrame
  /\ rendered = {}
  /\ messages = <<>>
  /\ stats = [id \in Catalog |-> NoStats]
  /\ exception = ""
  /\ requests = 0
  /\ failed = {}
  /\ served = {}
  /\ rounds = [k \in Keys |-> 0]
  /\ returned = [k \in Keys |-> {}]
  /\ caught_keys = {}

\* ---------------------------------------------------------------- actions
\* A user interaction starts a script run (lines 8-78): the page is
\* cleared, the credential is checked, then the selection.
Rerun(sel, range) ==
  /\ pc \in {"idle", "done", "stopped", "exception"}
  /\ selected_series_ids' = sel
  /\ start_date' = range[1]
  /\ end_date' = range[2]
  /\ i' = 1
  /\ fetched' = <<>>
  /\ df_list' = <<>>
  /\ combined_df' = EmptyDataFrame
  /\ rendered' = {}
  /\ stats' = [id \in Catalog |-> NoStats]
  /\ exception' = ""
  /\ requests' = 0
  /\ failed' = {}
  /\ served' = {}
  /\ IF key_rejected(FRED_API_KEY)
     THEN /\ messages' = <<[level |-> "error", about |-> "api_key"]>>
          /\ pc' = "stopped"
     ELSE IF has_selection(sel)
     THEN IF Len(sel) = 0
          THEN \* both loops run over nothing and df_list stays empty
               /\ messages' = <<[level |-> "warning", about |-> "no_data"]>>
               /\ pc' = "done"
          ELSE /\ messages' = <<>>
               /\ pc' = "fetch"
     ELSE /\ messages' = <<[level |-> "info", about |-> "select"]>>
          /\ pc' = "done"
  /\ UNCHANGED <<secret, series_info, cache, rounds, returned, caught_keys>>

\* Lines 84-124 once get_fred_data returned data for the series at i:
\* collect it, and after the last series concatenate and render, or warn.
Collect(data, msgs) ==
  LET list == IF ~IsEmpty(data) THEN Append(df_list, data) ELSE df_list
  IN /\ fetched' = Append(fetched, data)
     /\ df_list' = list
     /\ IF i < Len(selected_series_ids)
        THEN /\ i' = i + 1
             /\ messages' = messages \o msgs
             /\ UNCHANGED <<pc, combined_df, rendered>>
        ELSE IF Len(list) > 0
        THEN /\ combined_df' = concat(list)
             /\ rendered' = {"line_chart", "dataframe"}
             /\ messages' = messages \o msgs
             /\ i' = 1
             /\ pc' = "stats"
        ELSE /\ messages' = (messages \o msgs) \o
                   <<[level |-> "warning", about |-> "no_data"]>>
             /\ pc' = "done"
             /\ UNCHANGED <<i, combined_df, rendered>>

\* Line 83 with the key in the cache: the stored frame, its elements
\* replayed, no network request.
FetchCached ==
  LET series_id == selected_series_ids[i]
      key == cache_key(series_id, start_date, end_date)
  IN /\ pc = "fetch"
     /\ cache[key].cached
     /\ Collect(cache[key].frame, cache[key].messages)
     /\ served' = served \cup {series_id}
     /\ returned' = [returned EXCEPT ![key] = @ \cup {cache[key].frame}]
     /\ UNCHANGED <<secret, series_info, cache, selected_series_ids,
                    start_date, end_date, stats, exception, requests,
                    failed, rounds, caught_keys>>

\* Line 83 on a miss: the requests go out, the source answers resp, the
\* result is stored under the key.
FetchRequest(resp) ==
  LET series_id == selected_series_ids[i]
      key == cache_key(series_id, start_date, end_date)
      r == get_fred_data(series_id, resp, series_info[series_id])
  IN /\ pc = "fetch"
     /\ ~cache[key].cached
     /\ rounds[key] < MaxRounds
     /\ Collect(r.frame, r.messages)
     /\ cache' = cache_store(cache, key, r.frame, r.messages)
     /\ requests' = requests + r.requests
     /\ failed' = IF r.caught THEN failed \cup {series_id} ELSE failed
     /\ rounds' = [rounds EXCEPT ![key] = @ + 1]
     /\ returned' = [returned EXCEPT ![key] = @ \cup {r.frame}]
     /\ caught_keys' = IF r.caught THEN caught_keys \cup {key} ELSE caught_keys
     /\ UNCHANGED <<secret, series_info, selected_series_ids, start_date,
                    end_date, stats, exception, served>>

\* Lines 106-120 for the series at i: the title request (not guarded by
\* any try), the column lookup and the metrics; an exception ends the run.
Statistics(info_ok) ==
  LET series_id == selected_series_ids[i]
      r == series_statistics(combined_df, series_info[series_id])
  IN /\ pc = "stats"
     /\ requests' = requests + 1
     /\ IF ~info_ok
        THEN /\ exception' = "RequestException"
             /\ failed' = failed \cup {series_id}
             /\ pc' = "exception"
             /\ UNCHANGED <<stats, i>>
        ELSE /\ stats' = [stats EXCEPT ![series_id] = r.stats]
             /\ exception' = r.exception
             /\ UNCHANGED failed
             /\ IF r.exception # ""
                THEN pc' = "exception" /\ UNCHANGED i
                ELSE IF i < Len(selected_series_ids)
                THEN i' = i + 1 /\ UNCHANGED pc
                ELSE pc' = "done" /\ UNCHANGED i
     /\ UNCHANGED <<secret, series_info, cache, selected_series_ids,
                    start_date, end_date, fetched, df_list, combined_df,
                    rendered, messages, served, rounds, returned,
                    caught_keys>>

Next ==
  \/ \E sel \in Selections, range \in Ranges : Rerun(sel, range)
  \/ FetchCached
  \/ \E resp \in Responses(start_date, end_date) : FetchRequest(resp)
  \/ \E info_ok \in BOOLEAN : Statistics(info_ok)

Spec == Init /\ [][Next]_vars

\* ------------------------------------------------------------ vocabulary
\* The run has ended, normally or by an uncaught exception.
RunEnded == pc \in {"done", "exception"}
\* Number of non-missing observations of a frame get_fred_data returned.
NonMissing(frame) ==
  IF IsEmpty(frame) THEN 0
  ELSE Cardinality({t \in frame.index : frame.cols[1].cells[t] # NaN})
\* Positions of the selection whose fetch has returned in this run.
Fetched == DOMAIN fetched
KeyOf(id) == cache_key(id, start_date, end_date)
Shown(msg) == \E m \in DOMAIN messages : messages[m] = msg
\* The selected codes have pairwise different titles.
DistinctTitles ==
  \A p, q \in DOMAIN selected_series_ids :
    p # q => series_info[selected_series_ids[p]] # series_info[selected_series_ids[q]]
\* The full set of six metrics is on the page for the code.
FullStats(id) == Len(stats[id].metrics) = 6
\* What the script renders for a frame when its code is the only selection.
StatsAlone(frame) ==
  series_statistics(concat(<<frame>>), frame.cols[1].name).stats
\* Two collected frames share their display title.
SharedTitle(k1, k2) ==
  /\ k1 \in DOMAIN df_list /\ k2 \in DOMAIN df_list /\ k1 < k2
  /\ df_list[k1].cols[1].name = df_list[k2].cols[1].name

\* ------------------------------------------------------------------ C1
\* C1: with two or more codes selected, a failed network request for one
\* code is shown as a message for that code, the run does not abort, and
\* every other selected code (here: each with two or more observations
\* and its own title) ends in the table with its statistics.
C1_FailureIsolated ==
  ( /\ Len(selected_series_ids) >= 2
    /\ failed # {}
    /\ DistinctTitles
    /\ \A p \in Fetched :
         selected_series_ids[p] \notin failed => NonMissing(fetched[p]) >= 2 )
  => /\ pc # "exception"
     /\ \A id \in failed : Shown(FetchError(id))
     /\ pc = "done" =>
          \A p \in Fetched :
            selected_series_ids[p] \notin failed =>
              /\ columns_named(combined_df, fetched[p].cols[1].name) # {}
              /\ FullStats(selected_series_ids[p])

\* ------------------------------------------------------------------ C2
\* C2: per cache key, get_fred_data goes to the network at most once, all
\* calls return the same frame, and while the fetch loop runs the requests
\* of the run are only those of the calls not answered from the cache.
C2_SecondCallFromCache ==
  /\ \A k \in Keys : rounds[k] <= 1 /\ Cardinality(returned[k]) <= 1
  /\ pc = "fetch" =>
       requests <= 2 * Cardinality({selected_series_ids[p] : p \in Fetched} \ served)

\* A code with observations was answered from the cache in this run.
C2_Witness ==
  \E id \in served :
    /\ rounds[KeyOf(id)] = 1
    /\ \E f \in returned[KeyOf(id)] : ~IsEmpty(f)

\* ------------------------------------------------------------------ C3
\* C3: the dates of the combined table are the union of the dates of the
\* fetched frames; each non-empty frame has its column, in order, holding
\* its own cells and NaN (never a number) at the dates it lacks; empty
\* frames add neither rows nor columns.
C3_OuterJoin ==
  rendered # {} =>
    LET full == {p \in Fetched : ~IsEmpty(fetched[p])}
    IN /\ combined_df.index = UNION {fetched[p].index : p \in Fetched}
       /\ Len(combined_df.cols) = Cardinality(full)
       /\ \A p \in full :
            LET k == Cardinality({q \in full : q <= p})
                own == fetched[p].cols[1]
            IN /\ combined_df.cols[k].name = own.name
               /\ DOMAIN combined_df.cols[k].cells = combined_df.index
               /\ \A t \in combined_df.index :
                    combined_df.cols[k].cells[t] =
                      IF t \in fetched[p].index THEN own.cells[t] ELSE NaN

\* Two frames were joined and a date of the first is missing in the second.
C3_Witness ==
  /\ rendered # {}
  /\ Len(df_list) = 2
  /\ \E t \in combined_df.index :
       /\ t \in df_list[1].index /\ t \notin df_list[2].index
       /\ combined_df.cols[1].cells[t] # NaN
       /\ combined_df.cols[2].cells[t] = NaN

\* ------------------------------------------------------------------ C4
\* C4: a selected code with exactly one non-missing observation v gets
\* latest = mean = min = max = v and no change metric, without an
\* exception (checked in runs without failed requests, empty frames or
\* shared titles).
C4_SingleObservation ==
  ( /\ RunEnded
    /\ failed = {}
    /\ DistinctTitles
    /\ Len(fetched) = Len(selected_series_ids)
    /\ \A p \in Fetched : NonMissing(fetched[p]) >= 1 )
  => \A p \in Fetched :
       NonMissing(fetched[p]) = 1 =>
         LET m == stats[selected_series_ids[p]].metrics
             v == iloc(dropna_series(fetched[p].cols[1]), -1)
         IN /\ exception = ""
            /\ pc = "done"
            /\ \A n \in DOMAIN m : m[n][1] # "Change from Previous"
            /\ \A label \in {"Latest Value", "Average", "Min", "Max"} :
                 \E n \in DOMAIN m : m[n] = <<label, Fmt2(v, 1)>>

\* ------------------------------------------------------------------ C5
\* C5: a selected code without any non-missing observation, next to a
\* code with data, adds nothing to the table, gets no statistics and the
\* run completes for the other codes (checked in runs without failed
\* requests or shared titles, the other codes having two or more
\* observations).
C5_EmptySeriesHarmless ==
  ( /\ RunEnded
    /\ failed = {}
    /\ DistinctTitles
    /\ Len(fetched) = Len(selected_series_ids)
    /\ \E p \in Fetched : NonMissing(fetched[p]) = 0
    /\ \E p \in Fetched : NonMissing(fetched[p]) >= 2
    /\ \A p \in Fetched : NonMissing(fetched[p]) # 1 )
  => /\ pc = "done"
     /\ exception = ""
     /\ \A p \in Fetched :
          IF NonMissing(fetched[p]) = 0
          THEN stats[selected_series_ids[p]] = NoStats
          ELSE FullStats(selected_series_ids[p])

\* ------------------------------------------------------------------ C6
\* C6: when the run has ended, the statistics on the page for a selected
\* code with two or more observations, whose own requests succeeded, are
\* those rendered when that code is selected alone, whatever the other
\* selected codes (of other titles) are.
C6_StatsIndependent ==
  RunEnded =>
    \A p \in Fetched :
      ( /\ selected_series_ids[p] \notin failed
        /\ DistinctTitles
        /\ NonMissing(fetched[p]) >= 2 )
      => stats[selected_series_ids[p]] = StatsAlone(fetched[p])

\* ------------------------------------------------------------------ C7
\* C7: with the credential missing, empty or the placeholder, every run
\* stops at the credential check with the error message: no network
\* request, nothing cached, no chart, table or statistics.
C7_StopsWithoutCredential ==
  secret \in {NoSecret, "", "YOUR_API_KEY_HERE"} =>
    /\ pc \in {"idle", "stopped"}
    /\ requests = 0
    /\ \A k \in Keys : rounds[k] = 0 /\ ~cache[k].cached
    /\ rendered = {}
    /\ \A id \in Catalog : stats[id] = NoStats
    /\ pc = "stopped" =>
         messages = <<[level |-> "error", about |-> "api_key"]>>

\* A run with a selection was stopped at the credential check.
C7_Witness ==
  /\ secret \in {NoSecret, "", "YOUR_API_KEY_HERE"}
  /\ pc = "stopped"
  /\ Len(selected_series_ids) = 2

\* ------------------------------------------------------------------ C8
\* C8: a run with an accepted credential and nothing selected issues no
\* network request, renders no chart, table or statistics, and shows the
\* informational message only.
C8_EmptySelection ==
  ( /\ secret \notin {NoSecret, "", "YOUR_API_KEY_HERE"}
    /\ pc # "idle"
    /\ selected_series_ids = <<>> )
  => /\ pc = "done"
     /\ requests = 0
     /\ rendered = {}
     /\ \A id \in Catalog : stats[id] = NoStats
     /\ messages = <<[level |-> "info", about |-> "select"]>>

\* The selection was emptied after a run that had fetched data.
C8_Witness ==
  /\ pc = "done"
  /\ selected_series_ids = <<>>
  /\ messages = <<[level |-> "info", about |-> "select"]>>
  /\ \E k \in Keys : cache[k].cached /\ ~IsEmpty(cache[k].frame)

C10_FailureMemoized ==
  \A k \in caught_keys :
    /\ cache[k].cached
    /\ cache[k].frame = EmptyDataFrame
    /\ rounds[k] = 1
    /\ returned[k] = {EmptyDataFrame}

\* A later run was served the failure of an earlier one from the cache.
C10_Witness ==
  \E id \in served :
    /\ KeyOf(id) \in caught_keys
    /\ Shown(FetchError(id))
    /\ id \notin failed

====
